---------------------------- MODULE Spec2Model ----------------------------
(***************************************************************************)
(* Model of the aggregate-root library (src/src/aggregate_root) together   *)
(* with the aggregate classes its test-suite defines: the class-level      *)
(* handler table filled by AggregateRoot.handles_events, the dispatch of   *)
(* apply_event / produce_events, the pending-event buffer, the version     *)
(* setter, the produces_events wrapper and the flush context manager.      *)
(***************************************************************************)
EXTENDS Integers, Sequences, FiniteSets, TLC

(***************************************************************************)
(* Bounds of the exploration.                                              *)
(***************************************************************************)
MaxPending == 3      \* longest pending buffer explored
MaxArgs    == 2      \* most events passed to one produce_events/apply_event call
MaxVersion == 2      \* largest version number handed to the setter
MaxBalance == 200    \* largest |_balance| explored
MaxValue   == 5      \* largest _value explored

(***************************************************************************)
(* Python values.  None and strings are tuples so that they can be         *)
(* compared; a string is the sequence of its words.                        *)
(***************************************************************************)
None == <<"None">>
Str(words) == <<"str", words>>
NoArg == <<"-">>

(***************************************************************************)
(* Event classes of the tests (frozen dataclasses).  An event is its class *)
(* and its field values; fields a class does not declare hold NoArg / 0.   *)
(***************************************************************************)
EventTypes ==
    {"AccountCreated", "AccountDebited", "AccountCredited",
     "ExampleCreated", "ExampleValueUpdated", "ExampleLocked", "ExampleUnlocked",
     "MyAggregateCreated", "AccountDebitedSubclass"}

AccountCreated(name) == [type |-> "AccountCreated", name |-> name, value |-> 0]
AccountDebited(value) == [type |-> "AccountDebited", name |-> NoArg, value |-> value]
AccountCredited(value) == [type |-> "AccountCredited", name |-> NoArg, value |-> value]
\* an event of a class derived from AccountDebited
AccountDebitedSubclass(value) ==
    [type |-> "AccountDebitedSubclass", name |-> NoArg, value |-> value]

\* the class an event class derives from
EventBase(t) == IF t = "AccountDebitedSubclass" THEN "AccountDebited" ELSE "Event"

MyAggregateCreated == [type |-> "MyAggregateCreated", name |-> NoArg, value |-> 0]
ExampleCreated == [type |-> "ExampleCreated", name |-> NoArg, value |-> 0]
ExampleValueUpdated(value) == [type |-> "ExampleValueUpdated", name |-> NoArg, value |-> value]
ExampleLocked == [type |-> "ExampleLocked", name |-> NoArg, value |-> 0]
ExampleUnlocked == [type |-> "ExampleUnlocked", name |-> NoArg, value |-> 0]

(***************************************************************************)
(* Aggregate classes of the tests and what their bodies declare.           *)
(***************************************************************************)
Classes ==
    {"Account", "AssetAccount", "LiabilityAccount", "DoubleLiabilityAccount",
     "ExampleAggregateRoot"}

Base(c) ==
    CASE c = "Account" -> "AggregateRoot"
      [] c = "AssetAccount" -> "Account"
      [] c = "LiabilityAccount" -> "Account"
      [] c = "DoubleLiabilityAccount" -> "LiabilityAccount"
      [] c = "ExampleAggregateRoot" -> "AggregateRoot"
      [] c = "MyAggregate" -> "AggregateRoot"

NoHandler == "-"

\* the @AggregateRoot.handles_events(X) decorations in the body of class c:
\* event type -> decorated method (NoHandler where c decorates none)
Decorated(c) ==
    [t \in EventTypes |->
        CASE c = "Account" /\ t = "AccountCreated" -> "Account._on_account_created"
          [] c = "Account" /\ t = "AccountDebited" -> "Account._on_account_debited"
          [] c = "Account" /\ t = "AccountCredited" -> "Account._on_account_credited"
          [] c = "AssetAccount" /\ t = "AccountDebited" -> "AssetAccount._on_account_debited"
          [] c = "AssetAccount" /\ t = "AccountCredited" -> "AssetAccount._on_account_credited"
          [] c = "LiabilityAccount" /\ t = "AccountDebited" -> "LiabilityAccount._on_account_debited"
          [] c = "LiabilityAccount" /\ t = "AccountCredited" -> "LiabilityAccount._on_account_credited"
          [] c = "DoubleLiabilityAccount" /\ t = "AccountDebited" -> "DoubleLiabilityAccount._on_account_debited"
          [] c = "DoubleLiabilityAccount" /\ t = "AccountCreated" -> "DoubleLiabilityAccount._on_account_created"
          [] c = "ExampleAggregateRoot" /\ t = "ExampleValueUpdated" -> "ExampleAggregateRoot._handle_value_updated"
          [] OTHER -> NoHandler]

(***************************************************************************)
(* State.                                                                  *)
(***************************************************************************)
VARIABLES
    defined,         \* aggregate classes whose class statement has run
    event_handlers,  \* the attribute AggregateRoot._event_handlers
    agg,             \* the aggregate instance (cls = "-" before construction)
    replica,         \* a second instance of the same class, rebuilt by replay
    flushing,        \* TRUE while the body of "with agg.flush() as events" runs
    yielded,         \* what flush yielded: the body's variable "events"
    entry,           \* pending events when the running/last flush was entered
    during,          \* events produced since the running/last flush was entered
    produced,        \* events produced since construction or the last clear
    last,            \* the last call on the aggregate and its outcome
    registry,        \* the attribute SourceEventMeta._registry
    made,            \* how often each event class statement has run
    bound,           \* the event classes whose class statement completed
    evt,             \* the event instance at hand
    mapping,         \* the dictionary at hand
    decoded,         \* outcome of from_dict, while it is the last call
    elast            \* the last call on the registry or an event class

\* the variables of the aggregates
aggvars ==
    <<defined, event_handlers, agg, replica, flushing, yielded, entry, during, produced, last>>

\* the variables of the event classes and their registry
evvars == <<registry, made, bound, evt, mapping, decoded, elast>>

vars ==
    <<defined, event_handlers, agg, replica, flushing, yielded, entry, during, produced, last,
      registry, made, bound, evt, mapping, decoded, elast>>

(***************************************************************************)
(* Exceptions, by class and message.                                       *)
(***************************************************************************)
NoExc == "none"
NoTableError == "AttributeError: _event_handlers"
NoBalanceError == "AttributeError: _balance"
NoneConcatError == "TypeError: NoneType + str"
LockedError == "ValueError: Aggregate is locked"
NotIntError == "ValueError: Value must be an integer"
VersionError == "ValueError: Version must be greater than or equal to current version"
BodyError == "ValueError: Prevent clearing events"

(***************************************************************************)
(* Construction.  attrs is the set of subclass attributes the instance     *)
(* has; an attribute that is not set holds a fixed filler value.           *)
(***************************************************************************)
NotConstructed ==
    [cls |-> "-", id |-> "-", pending_events |-> <<>>, version |-> 0,
     attrs |-> {}, name |-> None, balance |-> 0, value |-> 0, locked |-> FALSE]

\* a constructor that does not keep the id it is given
construct_SameId(c, id) ==
    [cls |-> c, id |-> "id-1", pending_events |-> <<>>, version |-> 0,
     attrs |-> IF c = "ExampleAggregateRoot" THEN {"_value", "_locked"}
               ELSE IF c = "MyAggregate" THEN {}
               ELSE {"_name", "_balance"},
     name |-> None, balance |-> 0, value |-> 0, locked |-> FALSE]

\* AggregateRoot.__init__ followed by the subclass __init__
construct(c, id) ==
    [cls |-> c, id |-> id, pending_events |-> <<>>, version |-> 0,
     attrs |-> IF c = "ExampleAggregateRoot" THEN {"_value", "_locked"}
               ELSE IF c = "MyAggregate" THEN {}
               ELSE {"_name", "_balance"},
     name |-> None, balance |-> 0, value |-> 0, locked |-> FALSE]

(***************************************************************************)
(* The decorated handler methods: outcome of handler(self, event).         *)
(***************************************************************************)
Ok(a) == [a |-> a, exc |-> NoExc]
Raise(a, e) == [a |-> a, exc |-> e]

\* self._balance += delta  (reads the attribute first)
AddToBalance(a, delta) ==
    IF "_balance" \in a.attrs
    THEN Ok([a EXCEPT !.balance = @ + delta])
    ELSE Raise(a, NoBalanceError)

RunHandler(h, a, event) ==
    CASE h = "Account._on_account_created" ->
            Ok([a EXCEPT !.name = event.name, !.attrs = @ \cup {"_name"}])
      [] h = "Account._on_account_debited" -> Ok(a)
      [] h = "Account._on_account_credited" -> Ok(a)
      [] h = "AssetAccount._on_account_debited" -> AddToBalance(a, event.value)
      [] h = "AssetAccount._on_account_credited" -> AddToBalance(a, 0 - event.value)
      [] h = "LiabilityAccount._on_account_debited" -> AddToBalance(a, 0 - event.value)
      [] h = "LiabilityAccount._on_account_credited" -> AddToBalance(a, event.value)
      [] h = "DoubleLiabilityAccount._on_account_debited" ->
            AddToBalance(a, 0 - 2 * event.value)
      [] h = "DoubleLiabilityAccount._on_account_created" ->
            IF event.name = None
            THEN Raise(a, NoneConcatError)
            ELSE Ok([a EXCEPT !.name = Str(event.name[2] \o event.name[2]),
                              !.attrs = @ \cup {"_name"}])
      [] h = "ExampleAggregateRoot._handle_value_updated" ->
            Ok([a EXCEPT !.value = event.value, !.attrs = @ \cup {"_value"}])

\* the method self.handle_event resolves to
HandleEventOf(c) ==
    IF c = "ExampleAggregateRoot"
    THEN "ExampleAggregateRoot.handle_event"
    ELSE "AggregateRoot.handle_event"

handle_event(a, event) ==
    IF a.cls = "ExampleAggregateRoot"
    THEN IF event.type = "ExampleLocked" THEN Ok([a EXCEPT !.locked = TRUE])
         ELSE IF event.type = "ExampleUnlocked" THEN Ok([a EXCEPT !.locked = FALSE])
         ELSE Ok(a)
    ELSE Ok(a)

(***************************************************************************)
(* handles_events: the decorator stores the handler in the dictionary of   *)
(* the class it is called on, which is AggregateRoot at every use.         *)
(***************************************************************************)
NoTable == [set |-> FALSE, map |-> [t \in EventTypes |-> NoHandler]]

handles_events(tbl, event_type, handler) ==
    [set |-> TRUE, map |-> [tbl.map EXCEPT ![event_type] = handler]]

\* running the class statement of c: every decoration in its body
ClassBody(tbl, c) ==
    IF \A t \in EventTypes : Decorated(c)[t] = NoHandler
    THEN tbl
    ELSE [set |-> TRUE,
          map |-> [t \in EventTypes |->
                     IF Decorated(c)[t] # NoHandler
                     THEN handles_events(tbl, t, Decorated(c)[t]).map[t]
                     ELSE tbl.map[t]]]

(***************************************************************************)
(* apply_event and produce_events.  An outcome is the instance afterwards, *)
(* the exception that came out (NoExc if none), the handlers that were     *)
(* invoked, in order, and the position of the event that raised (0: none). *)
(***************************************************************************)
\* the handler registered for event type t or, failing that, for the
\* closest class t derives from
RECURSIVE HandlerAlong(_, _)
HandlerAlong(tbl, t) ==
    IF t = "Event" THEN NoHandler
    ELSE IF tbl.map[t] # NoHandler THEN tbl.map[t]
    ELSE HandlerAlong(tbl, EventBase(t))

\* a dispatch that takes an event to the handler of an ancestor of its type
Dispatch_Inherited(a, event, tbl) ==
    IF ~tbl.set
    THEN [a |-> a, exc |-> NoTableError, calls |-> <<>>]
    ELSE IF HandlerAlong(tbl, event.type) # NoHandler
         THEN LET r == RunHandler(HandlerAlong(tbl, event.type), a, event)
              IN  [a |-> r.a, exc |-> r.exc, calls |-> <<HandlerAlong(tbl, event.type)>>]
         ELSE LET r == handle_event(a, event)
              IN  [a |-> r.a, exc |-> r.exc, calls |-> <<HandleEventOf(a.cls)>>]

\* one turn of the loop of apply_event: the key is type(event)
Dispatch(a, event, tbl) ==
    IF ~tbl.set
    THEN [a |-> a, exc |-> NoTableError, calls |-> <<>>]
    ELSE IF tbl.map[event.type] # NoHandler
         THEN LET r == RunHandler(tbl.map[event.type], a, event)
              IN  [a |-> r.a, exc |-> r.exc, calls |-> <<tbl.map[event.type]>>]
         ELSE LET r == handle_event(a, event)
              IN  [a |-> r.a, exc |-> r.exc, calls |-> <<HandleEventOf(a.cls)>>]

\* apply_event recording what it applies
RECURSIVE ApplyFrom_Record(_, _, _, _, _)
ApplyFrom_Record(a, events, k, tbl, calls) ==
    IF k > Len(events)
    THEN [a |-> a, exc |-> NoExc, calls |-> calls, at |-> 0]
    ELSE LET r == Dispatch(a, events[k], tbl)
         IN  IF r.exc # NoExc
             THEN [a |-> r.a, exc |-> r.exc, calls |-> calls \o r.calls, at |-> k]
             ELSE ApplyFrom_Record([r.a EXCEPT !.pending_events = Append(@, events[k])],
                                   events, k + 1, tbl, calls \o r.calls)

RECURSIVE ApplyFrom(_, _, _, _, _)
ApplyFrom(a, events, k, tbl, calls) ==
    IF k > Len(events)
    THEN [a |-> a, exc |-> NoExc, calls |-> calls, at |-> 0]
    ELSE LET r == Dispatch(a, events[k], tbl)
         IN  IF r.exc # NoExc
             THEN [a |-> r.a, exc |-> r.exc, calls |-> calls \o r.calls, at |-> k]
             ELSE ApplyFrom(r.a, events, k + 1, tbl, calls \o r.calls)

apply_event(a, events, tbl) == ApplyFrom(a, events, 1, tbl, <<>>)

\* produce_events appending the event before it is applied
RECURSIVE ProduceFrom_AppendFirst(_, _, _, _, _)
ProduceFrom_AppendFirst(a, events, k, tbl, calls) ==
    IF k > Len(events)
    THEN [a |-> a, exc |-> NoExc, calls |-> calls, at |-> 0]
    ELSE LET b == [a EXCEPT !.pending_events = Append(@, events[k])]
             r == apply_event(b, <<events[k]>>, tbl)
         IN  IF r.exc # NoExc
             THEN [a |-> r.a, exc |-> r.exc, calls |-> calls \o r.calls, at |-> k]
             ELSE ProduceFrom_AppendFirst(r.a, events, k + 1, tbl, calls \o r.calls)

\* produce_events inserting the event at the front of the buffer
RECURSIVE ProduceFrom_Prepend(_, _, _, _, _)
ProduceFrom_Prepend(a, events, k, tbl, calls) ==
    IF k > Len(events)
    THEN [a |-> a, exc |-> NoExc, calls |-> calls, at |-> 0]
    ELSE LET r == apply_event(a, <<events[k]>>, tbl)
         IN  IF r.exc # NoExc
             THEN [a |-> r.a, exc |-> r.exc, calls |-> calls \o r.calls, at |-> k]
             ELSE ProduceFrom_Prepend(
                      [r.a EXCEPT !.pending_events = <<events[k]>> \o @],
                      events, k + 1, tbl, calls \o r.calls)

\* produce_events recording the event without applying it
RECURSIVE ProduceFrom_NoApply(_, _, _, _, _)
ProduceFrom_NoApply(a, events, k, tbl, calls) ==
    IF k > Len(events)
    THEN [a |-> a, exc |-> NoExc, calls |-> calls, at |-> 0]
    ELSE ProduceFrom_NoApply([a EXCEPT !.pending_events = Append(@, events[k])],
                             events, k + 1, tbl, calls)

\* produce_events counting the events it records in version
RECURSIVE ProduceFrom_Bump(_, _, _, _, _)
ProduceFrom_Bump(a, events, k, tbl, calls) ==
    IF k > Len(events)
    THEN [a |-> a, exc |-> NoExc, calls |-> calls, at |-> 0]
    ELSE LET r == apply_event(a, <<events[k]>>, tbl)
         IN  IF r.exc # NoExc
             THEN [a |-> r.a, exc |-> r.exc, calls |-> calls \o r.calls, at |-> k]
             ELSE ProduceFrom_Bump([r.a EXCEPT !.pending_events = Append(@, events[k]),
                                               !.version = @ + 1],
                                   events, k + 1, tbl, calls \o r.calls)

\* produce_events taking back what it appended when a later event raises
RECURSIVE ProduceFrom_DropOnFailure(_, _, _, _, _)
ProduceFrom_DropOnFailure(a, events, k, tbl, calls) ==
    IF k > Len(events)
    THEN [a |-> a, exc |-> NoExc, calls |-> calls, at |-> 0]
    ELSE LET r == apply_event(a, <<events[k]>>, tbl)
         IN  IF r.exc # NoExc
             THEN [a |-> [r.a EXCEPT !.pending_events =
                                        SubSeq(@, 1, Len(@) - (k - 1))],
                   exc |-> r.exc, calls |-> calls \o r.calls, at |-> k]
             ELSE ProduceFrom_DropOnFailure(
                      [r.a EXCEPT !.pending_events = Append(@, events[k])],
                      events, k + 1, tbl, calls \o r.calls)

RECURSIVE ProduceFrom(_, _, _, _, _)
ProduceFrom(a, events, k, tbl, calls) ==
    IF k > Len(events)
    THEN [a |-> a, exc |-> NoExc, calls |-> calls, at |-> 0]
    ELSE LET r == apply_event(a, <<events[k]>>, tbl)
         IN  IF r.exc # NoExc
             THEN [a |-> r.a, exc |-> r.exc, calls |-> calls \o r.calls, at |-> k]
             ELSE ProduceFrom([r.a EXCEPT !.pending_events = Append(@, events[k])],
                              events, k + 1, tbl, calls \o r.calls)

produce_events(a, events, tbl) == ProduceFrom(a, events, 1, tbl, <<>>)

\* clear_events starting the instance over
clear_events_Reset(a) == [a EXCEPT !.pending_events = <<>>, !.version = 0]

clear_events(a) == [a EXCEPT !.pending_events = <<>>]

\* the version setter refusing the current version too
set_version_Strict(a, value) ==
    IF value <= a.version
    THEN Raise(a, VersionError)
    ELSE Ok([a EXCEPT !.version = value])

\* the version setter
set_version(a, value) ==
    IF value < a.version
    THEN Raise(a, VersionError)
    ELSE Ok([a EXCEPT !.version = value])

(***************************************************************************)
(* Methods of the test aggregates wrapped with produces_events.  The       *)
(* outcome of a method body is the exception it raised or what it returned *)
(* (kind "None", "event" or "iterable", with the events in order).         *)
(***************************************************************************)
Returns(kind, evs) == [exc |-> NoExc, kind |-> kind, evs |-> evs]
Raises(e) == [exc |-> e, kind |-> "None", evs |-> <<>>]

IntArg(n) == [isint |-> TRUE, n |-> n]
StrArg == [isint |-> FALSE, n |-> 0 - 1]

\* ExampleAggregateRoot.add
add(a, value) ==
    IF a.locked THEN Raises(LockedError)
    ELSE IF value.isint
         THEN Returns("event", <<ExampleValueUpdated(a.value + value.n)>>)
         ELSE Raises(NotIntError)

\* ExampleAggregateRoot.toggle_lock
toggle_lock(a) ==
    IF a.locked THEN Returns("event", <<ExampleUnlocked>>)
    ELSE Returns("event", <<ExampleLocked>>)

\* Account.debit, Account.credit
debit(a, value) == Returns("event", <<AccountDebited(value)>>)
credit(a, value) == Returns("event", <<AccountCredited(value)>>)

\* a wrapper that passes on a single event only
produces_events_SingleOnly(m, a, tbl) ==
    IF m.exc # NoExc
    THEN [a |-> a, exc |-> m.exc, calls |-> <<>>, at |-> 0]
    ELSE IF m.kind = "event"
         THEN produce_events(a, m.evs, tbl)
         ELSE [a |-> a, exc |-> NoExc, calls |-> <<>>, at |-> 0]

\* a wrapper that catches what the method raises
produces_events_Swallow(m, a, tbl) ==
    IF m.exc # NoExc
    THEN [a |-> a, exc |-> NoExc, calls |-> <<>>, at |-> 0]
    ELSE IF m.kind # "None"
         THEN produce_events(a, m.evs, tbl)
         ELSE [a |-> a, exc |-> NoExc, calls |-> <<>>, at |-> 0]

\* the wrapper produces_events puts around a method; m is the outcome of
\* method(self, *args)
produces_events(m, a, tbl) ==
    IF m.exc # NoExc
    THEN [a |-> a, exc |-> m.exc, calls |-> <<>>, at |-> 0]
    ELSE IF m.kind # "None"
         THEN produce_events(a, m.evs, tbl)
         ELSE [a |-> a, exc |-> NoExc, calls |-> <<>>, at |-> 0]

(***************************************************************************)
(* flush yields the list object self._pending_events itself.  What the     *)
(* body holds is either that object ("ref") or a list of its own ("copy"). *)
(***************************************************************************)
NoYield == [kind |-> "none", val |-> <<>>]

flush_yield(a) == [kind |-> "ref", val |-> <<>>]

\* flush without the call of clear_events
flush_exit_NoClear(a, body_exc) == [a |-> a, exc |-> body_exc]

\* flush clearing in a finally clause
flush_exit_Finally(a, body_exc) == [a |-> clear_events(a), exc |-> body_exc]

\* flush removing only the events that were pending when it was entered
flush_exit_EntryOnly(a, body_exc) ==
    IF body_exc = NoExc
    THEN [a |-> [a EXCEPT !.pending_events = SubSeq(@, Len(entry) + 1, Len(@))],
          exc |-> NoExc]
    ELSE [a |-> a, exc |-> body_exc]

\* flush after the yield: a body that returned lets it run on to
\* clear_events; an exception of the body is thrown in at the yield, where
\* nothing catches it
flush_exit(a, body_exc) ==
    IF body_exc = NoExc
    THEN [a |-> clear_events(a), exc |-> NoExc]
    ELSE [a |-> a, exc |-> body_exc]

\* the elements of the list the body holds
YieldedValue == IF yielded.kind = "ref" THEN agg.pending_events ELSE yielded.val

(***************************************************************************)
(* Inputs and bookkeeping.                                                 *)
(***************************************************************************)
Ids == {"id-1"}

SeqsOver(S) == UNION {[1..n -> S] : n \in 1..MaxArgs}

AddArgs == {IntArg(5), StrArg}

Abs(n) == IF n < 0 THEN 0 - n ELSE n

InBounds(a) ==
    /\ Len(a.pending_events) <= MaxPending
    /\ Abs(a.balance) <= MaxBalance
    /\ a.value <= MaxValue

Call(op, events, arg, r) ==
    [op |-> op, events |-> events, arg |-> arg,
     exc |-> r.exc, calls |-> r.calls, at |-> r.at]

NoCall ==
    [op |-> "-", events |-> <<>>, arg |-> 0, exc |-> NoExc, calls |-> <<>>, at |-> 0]

\* the events of a call that were applied without an exception
Succeeded(events, r) ==
    IF r.at = 0 THEN events ELSE SubSeq(events, 1, r.at - 1)

\* the body's variable "events" and the record of the flush it came from
\* are dropped by the first call made after the with statement
Scope ==
    IF flushing
    THEN UNCHANGED <<yielded, entry>>
    ELSE yielded' = NoYield /\ entry' = <<>>

(***************************************************************************)
(* Actions.                                                                *)
(***************************************************************************)
\* the class statement of aggregate class c runs (its base is defined)
DefineClass(c) ==
    /\ c \notin defined
    /\ Base(c) \in defined \cup {"AggregateRoot"}
    /\ defined' = defined \cup {c}
    /\ event_handlers' = ClassBody(event_handlers, c)
    /\ UNCHANGED <<evvars, agg, replica, flushing, yielded, entry, during, produced, last>>

\* c(id)
Construct(c, id) ==
    /\ agg.cls = "-"
    /\ c \in defined
    /\ agg' = construct(c, id)
    /\ last' = [NoCall EXCEPT !.op = "construct"]
    /\ UNCHANGED <<evvars, replica, defined, event_handlers, flushing, yielded, entry, during, produced>>

\* bookkeeping common to the calls that produce events
Produced(op, events, arg, r) ==
    /\ InBounds(r.a)
    /\ agg' = r.a
    /\ produced' = produced \o Succeeded(events, r)
    /\ during' = IF flushing THEN during \o Succeeded(events, r) ELSE <<>>
    /\ last' = Call(op, events, arg, r)
    /\ Scope
    /\ UNCHANGED <<evvars, replica, defined, event_handlers, flushing>>

\* agg.produce_events(*events)
ProduceEvents(events) ==
    /\ agg.cls # "-"
    /\ Produced("produce_events", events, 0, produce_events(agg, events, event_handlers))

\* agg.apply_event(*events)
ApplyEvent(events) ==
    /\ agg.cls # "-"
    /\ LET r == apply_event(agg, events, event_handlers)
       IN  /\ InBounds(r.a)
           /\ agg' = r.a
           /\ last' = Call("apply_event", events, 0, r)
    /\ during' = IF flushing THEN during ELSE <<>>
    /\ Scope
    /\ UNCHANGED <<evvars, replica, defined, event_handlers, flushing, produced>>

\* agg.clear_events(), outside a flush body
ClearEvents ==
    /\ agg.cls # "-"
    /\ ~flushing
    /\ agg' = clear_events(agg)
    /\ produced' = <<>>
    /\ during' = <<>>
    /\ last' = [NoCall EXCEPT !.op = "clear_events"]
    /\ Scope
    /\ UNCHANGED <<evvars, replica, defined, event_handlers, flushing>>

\* agg.version = value
SetVersion(value) ==
    /\ agg.cls # "-"
    /\ LET r == set_version(agg, value)
       IN  /\ agg' = r.a
           /\ last' = [NoCall EXCEPT !.op = "version", !.arg = value, !.exc = r.exc]
    /\ during' = IF flushing THEN during ELSE <<>>
    /\ Scope
    /\ UNCHANGED <<evvars, replica, defined, event_handlers, flushing, produced>>

\* agg.add(value)
Add(value) ==
    /\ agg.cls = "ExampleAggregateRoot"
    /\ LET m == add(agg, value)
       IN  Produced("add", m.evs, value.n, produces_events(m, agg, event_handlers))

\* agg.toggle_lock()
ToggleLock ==
    /\ agg.cls = "ExampleAggregateRoot"
    /\ LET m == toggle_lock(agg)
       IN  Produced("toggle_lock", m.evs, 0, produces_events(m, agg, event_handlers))

\* agg.debit(value)
Debit(value) ==
    /\ agg.cls \notin {"-", "ExampleAggregateRoot"}
    /\ LET m == debit(agg, value)
       IN  Produced("debit", m.evs, value, produces_events(m, agg, event_handlers))

\* agg.credit(value)
Credit(value) ==
    /\ agg.cls \notin {"-", "ExampleAggregateRoot"}
    /\ LET m == credit(agg, value)
       IN  Produced("credit", m.evs, value, produces_events(m, agg, event_handlers))

\* "with agg.flush() as events:" reaches its body
FlushEnter ==
    /\ agg.cls # "-"
    /\ ~flushing
    /\ flushing' = TRUE
    /\ yielded' = flush_yield(agg)
    /\ entry' = agg.pending_events
    /\ during' = <<>>
    /\ last' = [NoCall EXCEPT !.op = "flush_enter"]
    /\ UNCHANGED <<evvars, replica, defined, event_handlers, agg, produced>>

\* the body ends, by returning (body_exc = NoExc) or by raising body_exc
FlushExit(body_exc) ==
    /\ flushing
    /\ flushing' = FALSE
    /\ LET r == flush_exit(agg, body_exc)
       IN  /\ agg' = r.a
           /\ last' = [NoCall EXCEPT !.op = "flush", !.exc = r.exc]
    /\ produced' = IF body_exc = NoExc THEN <<>> ELSE produced
    /\ UNCHANGED <<evvars, replica, defined, event_handlers, yielded, entry, during>>

(***************************************************************************)
(* Event classes and their registry (events.py).  A class statement is     *)
(* named by its module and class name; every run of it makes a new class   *)
(* object, the n-th run of statement s the object [stmt |-> s, n |-> n].   *)
(***************************************************************************)
MaxDefs == 2

IntVal(n) == <<"int", n>>

\* the class statements of events.py, in order
LibraryStmts == <<"events.Event", "events.DomainEvent">>

\* the class statements at the top of tests/test_state_event.py, in order
StateEventStmts ==
    <<"test_state_event.SimpleEvent", "test_state_event.AnotherEvent",
      "test_state_event.SimpleDomainEvent">>

\* the event class statements of the test modules
EventStmts ==
    {StateEventStmts[i] : i \in 1..Len(StateEventStmts)}
        \cup {"test_domain_event.SimpleEvent", "test_domain_event.AnotherEvent"}

\* the name in the class statement
ClassName(s) ==
    CASE s = "events.Event" -> "Event"
      [] s = "events.DomainEvent" -> "DomainEvent"
      [] s \in {"test_state_event.SimpleEvent", "test_domain_event.SimpleEvent"}
            -> "SimpleEvent"
      [] s \in {"test_state_event.AnotherEvent", "test_domain_event.AnotherEvent"}
            -> "AnotherEvent"
      [] s = "test_state_event.SimpleDomainEvent" -> "SimpleDomainEvent"

\* what cls.event_type() returns for the class of statement s: the class
\* name, unless the class body overrides event_type
event_type(s) ==
    IF ClassName(s) = "AnotherEvent" THEN "SimpleEvent2" ELSE ClassName(s)

\* the dataclass fields of the class of statement s, in order
Fields(s) ==
    CASE ClassName(s) = "SimpleEvent" ->
            <<[name |-> "a", required |-> TRUE, default |-> None],
              [name |-> "b", required |-> TRUE, default |-> None],
              [name |-> "c", required |-> FALSE, default |-> None],
              [name |-> "d", required |-> FALSE, default |-> IntVal(100)]>>
      [] ClassName(s) \in {"AnotherEvent", "SimpleDomainEvent"} ->
            <<[name |-> "a", required |-> TRUE, default |-> None]>>
      [] OTHER -> <<>>

FieldNames(s) == {Fields(s)[i].name : i \in 1..Len(Fields(s))}

Field(s, f) == Fields(s)[CHOOSE i \in 1..Len(Fields(s)) : Fields(s)[i].name = f]

NoClass == [stmt |-> "-", n |-> 0]

\* the strings used as keys of the registry or looked up in it
RegistryKeys ==
    {event_type(s) : s \in EventStmts} \cup {ClassName(s) : s \in EventStmts}
        \cup {"Event", "DomainEvent", "Unknown"}

\* the empty dictionary: a key that is absent holds NoClass
NoRegistry == [name \in RegistryKeys |-> NoClass]

DuplicateError == "ValueError: Event type is already registered"
RegistryKeyError == "KeyError: class name"
MissingError == "TypeError: missing required argument"
UnexpectedError == "TypeError: unexpected keyword argument"

\* a metaclass that registers without looking for an earlier entry
SourceEventMeta_new_Overwrite(reg, k) ==
    IF ClassName(k.stmt) \in {"Event", "DomainEvent"}
    THEN [registry |-> reg, exc |-> NoExc]
    ELSE [registry |-> [reg EXCEPT ![event_type(k.stmt)] = k], exc |-> NoExc]

\* SourceEventMeta.__new__, k being the class object super().__new__ made.
\* The message of the ValueError is built from cls._registry[name], which
\* raises KeyError when the class name is not itself a key.
SourceEventMeta_new(reg, k) ==
    IF ClassName(k.stmt) \in {"Event", "DomainEvent"}
    THEN [registry |-> reg, exc |-> NoExc]
    ELSE IF reg[event_type(k.stmt)] # NoClass
         THEN [registry |-> reg,
               exc |-> IF reg[ClassName(k.stmt)] # NoClass
                       THEN DuplicateError
                       ELSE RegistryKeyError]
         ELSE [registry |-> [reg EXCEPT ![event_type(k.stmt)] = k], exc |-> NoExc]

\* SourceEventMeta.get_event_type: None (NoClass) for a key that is absent
get_event_type(reg, name) == reg[name]

\* the first run of each of the class statements stmts[1..k], in order
RECURSIVE ImportEvents(_, _, _)
ImportEvents(reg, stmts, k) ==
    IF k = 0 THEN reg
    ELSE SourceEventMeta_new(ImportEvents(reg, stmts, k - 1),
                             [stmt |-> stmts[k], n |-> 1]).registry

(***************************************************************************)
(* Event instances: the class object and the instance's __dict__.          *)
(***************************************************************************)
NoEvent == [cls |-> NoClass, dict |-> <<>>]

\* a constructor that fills a field it was given no value for with None
new_event_FillNone(k, kwargs) ==
    IF ~(DOMAIN kwargs \subseteq FieldNames(k.stmt))
    THEN [exc |-> UnexpectedError, event |-> NoEvent]
    ELSE [exc |-> NoExc,
          event |-> [cls |-> k,
                     dict |-> [f \in FieldNames(k.stmt) |->
                                 IF f \in DOMAIN kwargs THEN kwargs[f]
                                 ELSE Field(k.stmt, f).default]]]

\* cls(**kwargs), the __init__ the dataclass decorator generates: a keyword
\* that is no parameter is refused before a missing argument is
new_event(k, kwargs) ==
    IF ~(DOMAIN kwargs \subseteq FieldNames(k.stmt))
    THEN [exc |-> UnexpectedError, event |-> NoEvent]
    ELSE IF \E f \in FieldNames(k.stmt) :
                Field(k.stmt, f).required /\ f \notin DOMAIN kwargs
         THEN [exc |-> MissingError, event |-> NoEvent]
         ELSE [exc |-> NoExc,
               event |-> [cls |-> k,
                          dict |-> [f \in FieldNames(k.stmt) |->
                                      IF f \in DOMAIN kwargs THEN kwargs[f]
                                      ELSE Field(k.stmt, f).default]]]

\* from_dict passing every key on to the constructor
from_dict_NoFilter(k, data) == new_event(k, data)

\* from_dict keeping only the keys of the fields that have no default
from_dict_RequiredOnly(k, data) ==
    new_event(k, [key \in {f \in DOMAIN data \cap FieldNames(k.stmt) :
                             Field(k.stmt, f).required} |-> data[key]])

\* Event.from_dict
from_dict(k, data) ==
    new_event(k, [key \in DOMAIN data \cap FieldNames(k.stmt) |-> data[key]])

FrozenError == "FrozenInstanceError: cannot assign to field"

\* an event class that is not frozen
setattr_Plain(e, f, v) == [exc |-> NoExc, event |-> [e EXCEPT !.dict[f] = v]]

\* e.f = v: the __setattr__ dataclass(frozen=True) generates
setattr(e, f, v) == [exc |-> FrozenError, event |-> e]

\* Event.to_dict returns self.__dict__
to_dict(e) == e.dict

\* the dictionary at hand is none, the __dict__ of the event at hand
\* ("ref") or a dictionary of the caller's ("dict")
NoMapping == [kind |-> "none", d |-> <<>>]

NoDecoded == [exc |-> NoExc, event |-> NoEvent]

NoEventCall ==
    [op |-> "-", arg |-> "-", cls |-> NoClass, exc |-> NoExc,
     dup |-> FALSE, again |-> FALSE]

\* nothing but events.py has been imported
EventsIdle ==
    /\ registry = ImportEvents(NoRegistry, LibraryStmts, Len(LibraryStmts))
    /\ made = [s \in EventStmts |-> 0]
    /\ bound = {}
    /\ evt = NoEvent
    /\ mapping = NoMapping
    /\ decoded = NoDecoded
    /\ elast = NoEventCall

(***************************************************************************)
(* Spec: one aggregate of the tests in use, after the test modules have    *)
(* been imported (test_aggregate_root, then test_aggregate_root_inheritance*)
(* , the order in which pytest collects them).                             *)
(***************************************************************************)
ImportOrder ==
    <<"ExampleAggregateRoot", "Account", "AssetAccount", "LiabilityAccount",
      "DoubleLiabilityAccount">>

RECURSIVE Import(_, _)
Import(tbl, k) ==
    IF k = 0 THEN tbl ELSE ClassBody(Import(tbl, k - 1), ImportOrder[k])

BlankAggregate ==
    /\ agg = NotConstructed
    /\ replica = NotConstructed
    /\ flushing = FALSE
    /\ yielded = NoYield
    /\ entry = <<>>
    /\ during = <<>>
    /\ produced = <<>>
    /\ last = NoCall

Blank == BlankAggregate /\ EventsIdle

Init ==
    /\ defined = Classes
    /\ event_handlers = Import(NoTable, Len(ImportOrder))
    /\ Blank

\* the events callers produce and replay
Events == {AccountCreated(None), ExampleLocked}

Next ==
    \/ \E c \in {"Account", "ExampleAggregateRoot"}, id \in Ids : Construct(c, id)
    \/ \E events \in SeqsOver(Events) : ProduceEvents(events)
    \/ \E events \in SeqsOver(Events) : ApplyEvent(events)
    \/ ClearEvents
    \/ \E value \in -1..MaxVersion : SetVersion(value)
    \/ \E value \in AddArgs : Add(value)
    \/ ToggleLock
    \/ Debit(100)
    \/ FlushEnter
    \/ FlushExit(NoExc)
    \/ FlushExit(BodyError)

Spec == Init /\ [][Next]_vars

(***************************************************************************)
(* SpecDispatch: the aggregate classes are defined one by one, in any      *)
(* order that defines a base before its subclasses, while an aggregate of  *)
(* a class already defined has single events applied and produced.         *)
(***************************************************************************)
InitDispatch ==
    /\ defined = {}
    /\ event_handlers = NoTable
    /\ Blank

DispatchEvents ==
    {AccountCreated(Str(<<"Base">>)), AccountDebited(100), AccountCredited(100),
     ExampleValueUpdated(5), ExampleLocked}

NextDispatch ==
    \/ \E c \in Classes : DefineClass(c)
    \/ \E c \in Classes, id \in Ids : Construct(c, id)
    \/ \E e \in DispatchEvents : ApplyEvent(<<e>>)
    \/ Debit(100)
    \/ Credit(100)

SpecDispatch == InitDispatch /\ [][NextDispatch]_vars

(***************************************************************************)
(* Dispatch claims.                                                        *)
(***************************************************************************)
\* the registration that instances of class c are to use for event type t:
\* the decoration of the closest class on the way from c up to AggregateRoot
RECURSIVE ClosestHandler(_, _)
ClosestHandler(c, t) ==
    IF c = "AggregateRoot" THEN NoHandler
    ELSE IF Decorated(c)[t] # NoHandler THEN Decorated(c)[t]
    ELSE ClosestHandler(Base(c), t)

\* the last call applied exactly one event (directly or through a wrapped method)
AppliedOne ==
    /\ agg.cls # "-"
    /\ last.op \in {"apply_event", "produce_events", "debit", "credit"}
    /\ Len(last.events) = 1

\* C1: an event of a type for which the aggregate's class or an ancestor
\* registered a handler runs the handler of the closest such class and no
\* other: a derived instance runs the derived handler, a base instance the
\* base handler, whatever the order in which the classes were defined.
C1_HandlerOverride ==
    (AppliedOne /\ ClosestHandler(agg.cls, last.events[1].type) # NoHandler)
        => last.calls = <<ClosestHandler(agg.cls, last.events[1].type)>>

\* C2: an event of a type for which neither the aggregate's class nor an
\* ancestor registered a handler goes to handle_event and to no registered
\* handler, also when an unrelated class registered one for that type; the
\* default handle_event leaves every field as it was.
C2_FallbackDispatch ==
    [][(/\ last' # last \/ agg' # agg
        /\ agg'.cls = agg.cls
        /\ agg.cls # "-"
        /\ last'.op \in {"apply_event", "produce_events"}
        /\ Len(last'.events) = 1
        /\ ClosestHandler(agg.cls, last'.events[1].type) = NoHandler)
       => (/\ last'.exc = NoExc
           /\ last'.calls = <<HandleEventOf(agg.cls)>>
           /\ HandleEventOf(agg.cls) = "AggregateRoot.handle_event" =>
                 /\ agg'.attrs = agg.attrs
                 /\ agg'.name = agg.name
                 /\ agg'.balance = agg.balance
                 /\ agg'.value = agg.value
                 /\ agg'.locked = agg.locked)]_vars

(***************************************************************************)
(* SpecReplay: two fresh instances of one class get the same events, agg   *)
(* by one produce_events call per event and replica by one apply_event     *)
(* call per event, while further classes may be defined.                   *)
(***************************************************************************)
ReplayEvents ==
    {AccountCreated(None), AccountDebited(100), ExampleValueUpdated(5), ExampleLocked}

\* c(id), twice
ConstructBoth(c, id) ==
    /\ agg.cls = "-"
    /\ c \in defined
    /\ agg' = construct(c, id)
    /\ replica' = construct(c, id)
    /\ last' = [NoCall EXCEPT !.op = "construct"]
    /\ UNCHANGED <<evvars, defined, event_handlers, flushing, yielded, entry, during, produced>>

\* agg.produce_events(e) and replica.apply_event(e)
ReplayStep(e) ==
    /\ agg.cls # "-"
    /\ replica.cls # "-"
    /\ LET p == produce_events(agg, <<e>>, event_handlers)
           q == apply_event(replica, <<e>>, event_handlers)
       IN  /\ InBounds(p.a)
           /\ agg' = p.a
           /\ replica' = q.a
           /\ produced' = produced \o Succeeded(<<e>>, q)
           /\ last' = Call("replay", <<e>>, 0, q)
    /\ UNCHANGED <<evvars, defined, event_handlers, flushing, yielded, entry, during>>

NextReplay ==
    \/ \E c \in Classes : DefineClass(c)
    \/ \E c \in Classes, id \in Ids : ConstructBoth(c, id)
    \/ \E e \in ReplayEvents : ReplayStep(e)

SpecReplay == InitDispatch /\ [][NextReplay]_vars

(***************************************************************************)
(* Buffer, flush, version and wrapper claims.                              *)
(***************************************************************************)
\* the domain state of an instance: the attributes its class and the
\* handlers set
Domain(a) ==
    [attrs |-> a.attrs, name |-> a.name, balance |-> a.balance,
     value |-> a.value, locked |-> a.locked]

\* what the handler or fallback for one event does on instance a
Handling(a, event) ==
    IF event_handlers.map[event.type] # NoHandler
    THEN RunHandler(event_handlers.map[event.type], a, event)
    ELSE handle_event(a, event)

\* C3: when applying the k-th event of produce_events raises, the buffer
\* holds what it held before plus the k-1 events applied before it, the
\* event that raised is not appended, and the caller gets the very
\* exception the handler (or fallback) raised.
C3_ProduceBeforeAppend ==
    [][(last'.op = "produce_events" /\ last'.at > 0)
       => LET k == last'.at
              before == apply_event(agg, SubSeq(last'.events, 1, k - 1),
                                    event_handlers).a
          IN  /\ agg'.pending_events
                    = agg.pending_events \o SubSeq(last'.events, 1, k - 1)
              /\ last'.exc = Handling(before, last'.events[k]).exc]_vars

C3_Witness ==
    /\ last.op = "produce_events"
    /\ last.at = 2
    /\ last.exc = NoneConcatError
    /\ agg.pending_events = <<last.events[1]>>

\* C4: the buffer is exactly the events produced since construction or the
\* last clear (clear_events or a flush whose body returned), in production
\* order, duplicates kept and nothing reordered.
C4_PendingAccumulation == agg.pending_events = produced

C4_Witness ==
    /\ last.op = "produce_events"
    /\ last.events = <<ExampleLocked, ExampleLocked>>
    /\ last.exc = NoExc
    /\ agg.pending_events = <<AccountDebited(100), ExampleLocked, ExampleLocked>>

\* C5: the list flush hands to the body holds the events pending at entry,
\* in order, and after a body that returned normally the buffer is empty.
C5_FlushOnSuccess ==
    /\ last.op = "flush_enter" => (yielded.kind # "none" /\ YieldedValue = entry)
    /\ (last.op = "flush" /\ last.exc = NoExc) => agg.pending_events = <<>>

C5_Witness ==
    /\ last.op = "flush"
    /\ last.exc = NoExc
    /\ Len(entry) = 2
    /\ agg.pending_events = <<>>

C7_SnapshotView ==
    yielded.kind # "none" => YieldedValue = entry

\* C8: after the same events, the instance driven by produce_events and
\* the one rebuilt by apply_event have the same domain state and version;
\* the rebuilt one has an empty buffer, the other holds the events.
C8_ReplayEquivalence ==
    replica.cls # "-"
        => /\ Domain(replica) = Domain(agg)
           /\ replica.version = agg.version
           /\ replica.pending_events = <<>>
           /\ agg.pending_events = produced

C8_Witness ==
    /\ replica.cls = "AssetAccount"
    /\ replica.balance # 0
    /\ Len(agg.pending_events) = 2
    /\ replica.pending_events = <<>>

\* C9: setting version to less than the current version raises ValueError
\* and changes nothing; setting it to the current version or more succeeds
\* and version is then that value.
C9_VersionMonotonicity ==
    [][(last'.op = "version")
       => IF last'.arg < agg.version
          THEN last'.exc = VersionError /\ agg' = agg
          ELSE last'.exc = NoExc /\ agg'.version = last'.arg]_vars

C9_Witness ==
    /\ last.op = "version"
    /\ last.exc = VersionError
    /\ last.arg < agg.version

\* C10: when the method wrapped with produces_events raises, the caller
\* gets that exception, no handler has run and the aggregate (buffer,
\* version, domain state) is as before the call.
C10_ValidateThenProduce ==
    [][(last'.op = "add"
        /\ add(agg, IF last'.arg < 0 THEN StrArg ELSE IntArg(last'.arg)).exc # NoExc)
       => /\ last'.exc
                = add(agg, IF last'.arg < 0 THEN StrArg ELSE IntArg(last'.arg)).exc
          /\ last'.calls = <<>>
          /\ agg' = agg]_vars

C10_Witness ==
    /\ last.op = "add"
    /\ last.exc = LockedError
    /\ agg.value = 5
    /\ agg.pending_events # <<>>

(***************************************************************************)
(* SpecCalls: an aggregate of the tests on which methods wrapped with      *)
(* produces_events return None, one event or an iterable of events, and    *)
(* on which apply_event is called with one or more events.                 *)
(***************************************************************************)
CallEvents == {AccountCreated(None), ExampleValueUpdated(5), ExampleLocked}

\* what a wrapped method may return:
\* Union[DomainEvent, Iterable[DomainEvent], None]
ReturnValues ==
    {Returns("None", <<>>)}
        \cup {Returns("event", <<e>>) : e \in CallEvents}
        \cup {Returns("iterable", evs) : evs \in SeqsOver(CallEvents) \cup {<<>>}}

WrappedOp(m) ==
    CASE m.kind = "None" -> "wrapped_none"
      [] m.kind = "event" -> "wrapped_event"
      [] m.kind = "iterable" -> "wrapped_iterable"

\* agg.method(), the method being wrapped with produces_events and its
\* body returning m
Wrapped(m) ==
    /\ agg.cls # "-"
    /\ Produced(WrappedOp(m), m.evs, 0, produces_events(m, agg, event_handlers))

NextCalls ==
    \/ \E c \in {"Account", "ExampleAggregateRoot"}, id \in Ids : Construct(c, id)
    \/ \E m \in ReturnValues : Wrapped(m)
    \/ \E events \in SeqsOver(CallEvents) : ApplyEvent(events)

SpecCalls == Init /\ [][NextCalls]_vars

\* the method apply_event invokes on instance a for an event
HandlerFor(a, e) ==
    IF event_handlers.map[e.type] # NoHandler
    THEN event_handlers.map[e.type]
    ELSE HandleEventOf(a.cls)

\* instance a after events[1..k] were handled one after the other
RECURSIVE HandledInOrder(_, _, _)
HandledInOrder(a, events, k) ==
    IF k = 0 THEN a ELSE Handling(HandledInOrder(a, events, k - 1), events[k]).a

\* C11: a wrapped method that returns one event has it applied and
\* appended as a sequence of one; one that returns an iterable has each
\* event applied and appended in iteration order (up to an event whose
\* handler raises); one that returns None or an empty iterable invokes no
\* handler and leaves the buffer and the state as they were.
C11_WrapperReturnKinds ==
    [][/\ (last'.op = "wrapped_none"
             \/ (last'.op = "wrapped_iterable" /\ last'.events = <<>>))
          => (agg' = agg /\ last'.calls = <<>> /\ last'.exc = NoExc)
       /\ last'.op = "wrapped_event" => Len(last'.events) = 1
       /\ last'.op \in {"wrapped_event", "wrapped_iterable"}
          => LET n == IF last'.at = 0 THEN Len(last'.events) ELSE last'.at - 1
             IN  /\ agg'.pending_events
                       = agg.pending_events \o SubSeq(last'.events, 1, n)
                 /\ Domain(agg') = Domain(HandledInOrder(agg, last'.events, n))
                 /\ agg'.version = agg.version
                 /\ \A i \in 1..n :
                       last'.calls[i]
                           = HandlerFor(HandledInOrder(agg, last'.events, i - 1),
                                        last'.events[i])
                 /\ last'.at = 0 => (last'.exc = NoExc /\ Len(last'.calls) = n)]_vars

C11_Witness ==
    /\ last.op = "wrapped_iterable"
    /\ last.events = <<ExampleValueUpdated(5), ExampleLocked>>
    /\ last.exc = NoExc
    /\ agg.value = 5
    /\ agg.locked
    /\ agg.pending_events = <<ExampleLocked, ExampleValueUpdated(5), ExampleLocked>>

(***************************************************************************)
(* SpecRegistry: the event class statements of the test modules run, in    *)
(* any order and up to MaxDefs times each (a module imported again), and   *)
(* names are looked up in the registry.                                    *)
(***************************************************************************)
\* the class statement s runs
DefineEventClass(s) ==
    /\ made[s] < MaxDefs
    /\ LET k == [stmt |-> s, n |-> made[s] + 1]
           r == SourceEventMeta_new(registry, k)
       IN  /\ registry' = r.registry
           /\ bound' = IF r.exc = NoExc THEN bound \cup {k} ELSE bound
           /\ elast' = [op |-> "class", arg |-> event_type(s), cls |-> k,
                        exc |-> r.exc,
                        dup |-> \E b \in bound : event_type(b.stmt) = event_type(s),
                        again |-> \E b \in bound : b.stmt = s]
    /\ made' = [made EXCEPT ![s] = @ + 1]
    /\ UNCHANGED <<aggvars, evt, mapping, decoded>>

\* SourceEventMeta.get_event_type(name)
GetEventType(name) ==
    /\ elast' = [NoEventCall EXCEPT !.op = "get_event_type", !.arg = name,
                                    !.cls = get_event_type(registry, name)]
    /\ UNCHANGED <<aggvars, registry, made, bound, evt, mapping, decoded>>

NextRegistry ==
    \/ \E s \in EventStmts : DefineEventClass(s)
    \/ \E name \in RegistryKeys : GetEventType(name)

SpecRegistry == Init /\ [][NextRegistry]_vars

\* C12: a class statement whose type name (the class name, or what an
\* overridden event_type() returns) is already registered to another class
\* raises the duplicate-event-type ValueError, and the registry still maps
\* the name to the first class.
C12_RegistryUniqueness ==
    (elast.op = "class" /\ elast.dup)
        => /\ elast.exc = DuplicateError
           /\ \E b \in bound :
                 /\ b # elast.cls
                 /\ event_type(b.stmt) = elast.arg
                 /\ get_event_type(registry, elast.arg) = b

\* C13: a class statement that runs again after it has registered its
\* class (the module imported again) raises nothing and leaves the
\* registry as it was.
C13_RegistryIdempotence ==
    (elast.op = "class" /\ elast.again)
        => /\ elast.exc = NoExc
           /\ \E b \in bound :
                 b.stmt = elast.cls.stmt /\ get_event_type(registry, elast.arg) = b

\* C14: a class that has been defined is what get_event_type returns for
\* its type name (the class name, or the overridden name) in every later
\* state: no entry is removed or bound to another class; looking up a name
\* that was never registered returns None, and a lookup changes nothing.
C14_RegistryPermanence ==
    [][/\ \A name \in RegistryKeys :
             registry[name] # NoClass => registry'[name] = registry[name]
       /\ \A b \in bound' : get_event_type(registry', event_type(b.stmt)) = b
       /\ elast'.op = "get_event_type"
          => /\ registry' = registry
             /\ bound' = bound
             /\ (\A b \in bound : event_type(b.stmt) # elast'.arg)
                   => elast'.cls = NoClass
             /\ \A b \in bound :
                   event_type(b.stmt) = elast'.arg => elast'.cls = b]_vars

C14_Witness ==
    /\ elast.op = "get_event_type"
    /\ elast.arg = "SimpleEvent2"
    /\ elast.cls = [stmt |-> "test_state_event.AnotherEvent", n |-> 1]
    /\ made["test_domain_event.AnotherEvent"] = 1
    /\ made["test_state_event.AnotherEvent"] = 2

(***************************************************************************)
(* Handler table claims.                                                   *)
(***************************************************************************)
\* what apply_event does on an instance of class c for an event of type t
\* while the table is tbl: the handler it invokes, or the error it raises
Runs(tbl, c, t) ==
    IF ~tbl.set THEN NoTableError
    ELSE IF tbl.map[t] # NoHandler THEN tbl.map[t]
    ELSE HandleEventOf(c)

\* C15: once a class and its handlers are defined, what its instances run
\* for each event type stays the same whatever class is defined later.
C15_HandlerTableStability ==
    [][\A c \in defined, t \in EventTypes :
          Runs(event_handlers', c, t) = Runs(event_handlers, c, t)]_vars

(***************************************************************************)
(* SpecIsolation: two instances, of one class or of two, each constructed  *)
(* and then operated on by itself.  agg is instance 1, replica instance 2. *)
(***************************************************************************)
Instances == {1, 2}

Self(i) == IF i = 1 THEN agg ELSE replica

\* instances that share one list of pending events
Written_SharedBuffer(i, a) ==
    [j \in Instances |->
        IF j = i THEN a
        ELSE IF Self(j).cls = "-" THEN Self(j)
        ELSE [Self(j) EXCEPT !.pending_events = a.pending_events]]

\* the instances after a call on instance i left it as a: _id,
\* _pending_events and _version are attributes __init__ sets on self, and
\* the methods and handlers write to self
Written(i, a) == [j \in Instances |-> IF j = i THEN a ELSE Self(j)]

IsoEvents == {AccountDebited(100), ExampleLocked}

\* instance i is constructed
ConstructOne(i, c, id) ==
    /\ Self(i).cls = "-"
    /\ c \in defined
    /\ agg' = Written(i, construct(c, id))[1]
    /\ replica' = Written(i, construct(c, id))[2]
    /\ last' = [NoCall EXCEPT !.op = "construct", !.arg = i]
    /\ UNCHANGED <<evvars, defined, event_handlers, flushing, yielded, entry, during, produced>>

\* a call on instance i with outcome r
CallOn(i, op, events, r) ==
    /\ Self(i).cls # "-"
    /\ InBounds(r.a)
    /\ agg' = Written(i, r.a)[1]
    /\ replica' = Written(i, r.a)[2]
    /\ last' = Call(op, events, i, r)
    /\ UNCHANGED <<evvars, defined, event_handlers, flushing, yielded, entry, during, produced>>

\* an outcome without events
Plain(r) == [a |-> r.a, exc |-> r.exc, calls |-> <<>>, at |-> 0]

ProduceOn(i, e) ==
    CallOn(i, "produce_events", <<e>>, produce_events(Self(i), <<e>>, event_handlers))

ApplyOn(i, e) ==
    CallOn(i, "apply_event", <<e>>, apply_event(Self(i), <<e>>, event_handlers))

ClearOn(i) == CallOn(i, "clear_events", <<>>, Plain(Ok(clear_events(Self(i)))))

SetVersionOn(i, value) ==
    CallOn(i, "version", <<>>, Plain(set_version(Self(i), value)))

\* "with instance.flush(): ..." from entry to exit, the body returning
\* (body_exc = NoExc) or raising body_exc without calling the aggregate
FlushOn(i, body_exc) ==
    CallOn(i, "flush", <<>>, Plain(flush_exit(Self(i), body_exc)))

NextIsolation ==
    \/ \E i \in Instances, c \in {"Account", "ExampleAggregateRoot"}, id \in Ids :
          ConstructOne(i, c, id)
    \/ \E i \in Instances, e \in IsoEvents : ProduceOn(i, e)
    \/ \E i \in Instances, e \in IsoEvents : ApplyOn(i, e)
    \/ \E i \in Instances : ClearOn(i)
    \/ \E i \in Instances, value \in 0..MaxVersion : SetVersionOn(i, value)
    \/ \E i \in Instances, body_exc \in {NoExc, BodyError} : FlushOn(i, body_exc)

SpecIsolation == Init /\ [][NextIsolation]_vars

\* C16: constructing an instance, produce_events, apply_event,
\* clear_events, flush and setting version on it leave the buffer, the
\* version and the domain state of the other instance as they were,
\* whether the other is of the same class or not.
C16_InstanceIsolation ==
    [][/\ last'.arg = 1 => replica' = replica
       /\ last'.arg = 2 => agg' = agg]_vars

C16_Witness ==
    /\ last.op = "produce_events"
    /\ last.arg = 1
    /\ last.exc = NoExc
    /\ agg.cls = replica.cls
    /\ Len(agg.pending_events) = 2
    /\ agg.version = 0
    /\ replica.pending_events = <<>>
    /\ replica.version = MaxVersion
    /\ replica.locked

(***************************************************************************)
(* Frame claims.                                                           *)
(***************************************************************************)
\* C17: clear_events empties the buffer and nothing else: the id, the
\* version, the domain state and the handler table are as before, and no
\* handler is invoked.
C17_ClearFrame ==
    [][last'.op = "clear_events"
       => /\ agg'.pending_events = <<>>
          /\ agg' = [agg EXCEPT !.pending_events = <<>>]
          /\ event_handlers' = event_handlers
          /\ last'.calls = <<>>
          /\ last'.exc = NoExc]_vars

C17_Witness ==
    /\ last.op = "clear_events"
    /\ agg.pending_events = <<>>
    /\ agg.version = MaxVersion
    /\ agg.value = 5
    /\ agg.locked

\* C18: apply_event dispatches the events it is given in argument order
\* (up to one whose handler raises) and leaves the buffer as it was, so an
\* instance that only ever had apply_event called has an empty buffer.
C18_ApplyLeavesBuffer ==
    [][last'.op = "apply_event"
       => LET n == IF last'.at = 0 THEN Len(last'.events) ELSE last'.at
          IN  /\ agg'.pending_events = agg.pending_events
              /\ Len(last'.calls) = n
              /\ \A i \in 1..n :
                    last'.calls[i]
                        = HandlerFor(HandledInOrder(agg, last'.events, i - 1),
                                     last'.events[i])
              /\ last'.at = 0
                 => /\ last'.exc = NoExc
                    /\ Domain(agg') = Domain(HandledInOrder(agg, last'.events, n))]_vars

C18_Witness ==
    /\ last.op = "apply_event"
    /\ last.events = <<ExampleValueUpdated(5), ExampleLocked>>
    /\ last.exc = NoExc
    /\ agg.value = 5
    /\ agg.locked
    /\ agg.pending_events = <<>>

(***************************************************************************)
(* SpecBare: the class MyAggregate of the docstrings, which decorates no   *)
(* handler, is defined and used, before or after classes that do.          *)
(***************************************************************************)
BareClasses == {"MyAggregate", "ExampleAggregateRoot", "Account"}

BareEvents == {MyAggregateCreated, ExampleLocked, AccountDebited(100)}

NextBare ==
    \/ \E c \in BareClasses : DefineClass(c)
    \/ \E id \in Ids : Construct("MyAggregate", id)
    \/ \E e \in BareEvents : ProduceEvents(<<e>>)
    \/ \E e \in BareEvents : ApplyEvent(<<e>>)

SpecBare == InitDispatch /\ [][NextBare]_vars

\* C19: an event of a type no handler is registered for ends in
\* handle_event and raises nothing, on an aggregate whose class registered
\* no handler and also when no class has called handles_events at all.
C19_FallbackWithoutTable ==
    (/\ agg.cls = "MyAggregate"
     /\ last.op \in {"apply_event", "produce_events"}
     /\ Len(last.events) = 1
     /\ event_handlers.map[last.events[1].type] = NoHandler)
        => /\ last.exc = NoExc
           /\ last.calls = <<HandleEventOf(agg.cls)>>

(***************************************************************************)
(* SpecEvents: after tests/test_state_event.py has been imported, events   *)
(* of its classes are constructed, turned into dictionaries and built      *)
(* from dictionaries.                                                      *)
(***************************************************************************)
\* the class object the first run of statement s made
ClassOf(s) == [stmt |-> s, n |-> 1]

Keys == {"a", "b", "c", "d", "x"}

\* the values given to each key; a key that is left out of the keyword
\* arguments gets the default of the field (None for c, 100 for d)
ValuesOf(key) ==
    CASE key = "a" -> {IntVal(5)}
      [] key = "b" -> {Str(<<"test">>)}
      [] key = "c" -> {Str(<<"test">>)}
      [] key = "d" -> {IntVal(200)}
      [] key = "x" -> {Str(<<"extra">>)}

\* a key may be left out
Absent == <<"absent">>

Opt(key) == ValuesOf(key) \cup {Absent}

DictOf(a, b, c, d, x) ==
    LET given == [key \in Keys |->
                    CASE key = "a" -> a
                      [] key = "b" -> b
                      [] key = "c" -> c
                      [] key = "d" -> d
                      [] key = "x" -> x]
    IN  [key \in {k \in Keys : given[k] # Absent} |-> given[key]]

\* the dictionaries and keyword arguments over these keys
Dicts ==
    {DictOf(a, b, c, d, x) :
        a \in Opt("a"), b \in Opt("b"), c \in Opt("c"), d \in Opt("d"), x \in Opt("x")}

\* the elements of the dictionary at hand
MappingValue == IF mapping.kind = "ref" THEN to_dict(evt) ELSE mapping.d

InitEvents ==
    /\ defined = Classes
    /\ event_handlers = Import(NoTable, Len(ImportOrder))
    /\ BlankAggregate
    /\ registry = ImportEvents(ImportEvents(NoRegistry, LibraryStmts, Len(LibraryStmts)),
                               StateEventStmts, Len(StateEventStmts))
    /\ made = [s \in EventStmts |->
                 IF \E i \in 1..Len(StateEventStmts) : StateEventStmts[i] = s
                 THEN 1 ELSE 0]
    /\ bound = {ClassOf(StateEventStmts[i]) : i \in 1..Len(StateEventStmts)}
    /\ evt = NoEvent
    /\ mapping = NoMapping
    /\ decoded = NoDecoded
    /\ elast = NoEventCall

\* evt = C(**mapping), C being the class of statement s and mapping a
\* dictionary of the caller's
NewEvent(s) ==
    /\ ClassOf(s) \in bound
    /\ mapping.kind = "dict"
    /\ LET r == new_event(ClassOf(s), mapping.d)
       IN  /\ evt' = IF r.exc = NoExc THEN r.event ELSE evt
           /\ mapping' = mapping
           /\ decoded' = NoDecoded
           /\ elast' = [NoEventCall EXCEPT !.op = "new", !.arg = event_type(s),
                                           !.cls = ClassOf(s), !.exc = r.exc]
    /\ UNCHANGED <<aggvars, registry, made, bound>>

\* mapping = evt.to_dict()
ToDict ==
    /\ evt # NoEvent
    /\ mapping' = [kind |-> "ref", d |-> <<>>]
    /\ decoded' = NoDecoded
    /\ elast' = [NoEventCall EXCEPT !.op = "to_dict", !.cls = evt.cls]
    /\ UNCHANGED <<aggvars, registry, made, bound, evt>>

\* mapping = {...}
GivenDict(d) ==
    /\ mapping' = [kind |-> "dict", d |-> d]
    /\ decoded' = NoDecoded
    /\ elast' = [NoEventCall EXCEPT !.op = "dict"]
    /\ UNCHANGED <<aggvars, registry, made, bound, evt>>

\* SourceEventMeta.get_event_type(name).from_dict(mapping)
FromDict(name) ==
    /\ mapping.kind # "none"
    /\ get_event_type(registry, name) # NoClass
    /\ decoded' = from_dict(get_event_type(registry, name), MappingValue)
    /\ elast' = [NoEventCall EXCEPT !.op = "from_dict", !.arg = name,
                                    !.cls = get_event_type(registry, name),
                                    !.exc = decoded'.exc]
    /\ UNCHANGED <<aggvars, registry, made, bound, evt, mapping>>

\* evt.f = v
SetAttr(f, v) ==
    /\ evt # NoEvent
    /\ f \in FieldNames(evt.cls.stmt)
    /\ evt' = setattr(evt, f, v).event
    /\ decoded' = NoDecoded
    /\ elast' = [NoEventCall EXCEPT !.op = "setattr", !.arg = f, !.cls = evt.cls,
                                    !.exc = setattr(evt, f, v).exc]
    /\ UNCHANGED <<aggvars, registry, made, bound, mapping>>

NextEvents ==
    \/ \E s \in EventStmts : NewEvent(s)
    \/ \E f \in Keys : SetAttr(f, IntVal(10))
    \/ ToDict
    \/ \E d \in Dicts : GivenDict(d)
    \/ \E name \in RegistryKeys : FromDict(name)

SpecEvents == InitEvents /\ [][NextEvents]_vars

\* C20: for an event e of a registered class, from_dict of to_dict(e) on
\* the class found by looking up e's type name gives an event equal to e.
C20_RoundTrip ==
    (/\ elast.op = "from_dict"
     /\ mapping.kind = "ref"
     /\ elast.arg = event_type(evt.cls.stmt))
        => /\ elast.cls = evt.cls
           /\ decoded.exc = NoExc
           /\ decoded.event = evt

C20_Witness ==
    /\ elast.op = "from_dict"
    /\ mapping.kind = "ref"
    /\ elast.arg = "SimpleEvent"
    /\ evt.cls.stmt = "test_state_event.SimpleEvent"
    /\ evt.dict["c"] = Str(<<"test">>)
    /\ evt.dict["d"] = IntVal(200)
    /\ decoded.event = evt

\* a required field of class k has no value in kwargs
Missing(k, kwargs) ==
    \E f \in FieldNames(k.stmt) : Field(k.stmt, f).required /\ f \notin DOMAIN kwargs

\* C21: from_dict of a mapping that holds every required field and also
\* keys that are no fields succeeds; the event has the fields of its class
\* and no others, each with the mapping's value, or with its default where
\* the mapping has none.
C21_UnknownFieldTolerance ==
    (/\ elast.op = "from_dict"
     /\ mapping.kind = "dict"
     /\ ~Missing(elast.cls, mapping.d))
        => /\ decoded.exc = NoExc
           /\ decoded.event.cls = elast.cls
           /\ DOMAIN decoded.event.dict = FieldNames(elast.cls.stmt)
           /\ \A f \in FieldNames(elast.cls.stmt) :
                 decoded.event.dict[f]
                     = IF f \in DOMAIN mapping.d THEN mapping.d[f]
                       ELSE Field(elast.cls.stmt, f).default

C21_Witness ==
    /\ elast.op = "from_dict"
    /\ elast.arg = "SimpleEvent"
    /\ mapping.kind = "dict"
    /\ DOMAIN mapping.d = {"a", "b", "d", "x"}
    /\ decoded.exc = NoExc
    /\ decoded.event.dict["c"] = None
    /\ decoded.event.dict["d"] = IntVal(200)

\* C22: constructing an event, directly or with from_dict, without a value
\* for a field that has no default raises TypeError (the missing-argument
\* one unless the constructor was also given a keyword that is no field)
\* and yields no event.
C22_MissingRequiredField ==
    [][/\ (elast'.op = "new" /\ Missing(elast'.cls, mapping.d))
          => /\ elast'.exc \in {MissingError, UnexpectedError}
             /\ DOMAIN mapping.d \subseteq FieldNames(elast'.cls.stmt)
                   => elast'.exc = MissingError
             /\ evt' = evt
       /\ (elast'.op = "from_dict" /\ Missing(elast'.cls, MappingValue))
          => /\ elast'.exc = MissingError
             /\ decoded'.exc = MissingError
             /\ decoded'.event = NoEvent
             /\ evt' = evt]_vars

C22_Witness ==
    /\ elast.op = "new"
    /\ elast.arg = "SimpleEvent"
    /\ elast.exc = MissingError
    /\ mapping.kind = "dict"
    /\ DOMAIN mapping.d = {"a"}
    /\ evt = NoEvent

\* C23: assigning to a field of a constructed event raises
\* FrozenInstanceError and the event's field values stay as they were.
C23_EventImmutability ==
    [][elast'.op = "setattr"
       => /\ elast'.exc = FrozenError
          /\ evt' = evt]_vars

C23_Witness ==
    /\ elast.op = "setattr"
    /\ elast.arg = "a"
    /\ elast.exc = FrozenError
    /\ evt.cls.stmt = "test_state_event.SimpleEvent"
    /\ evt.dict["a"] = IntVal(5)

(***************************************************************************)
(* SpecExact: an aggregate of the tests is given events of a handled       *)
(* type, of a class derived from it, and of a type without handler.        *)
(***************************************************************************)
ExactEvents == {AccountDebited(100), AccountDebitedSubclass(100), ExampleLocked}

NextExact ==
    \/ \E c \in {"Account", "ExampleAggregateRoot"}, id \in Ids : Construct(c, id)
    \/ \E e \in ExactEvents : ApplyEvent(<<e>>)
    \/ \E e \in ExactEvents : ProduceEvents(<<e>>)

SpecExact == Init /\ [][NextExact]_vars

\* C24: apply_event takes an event to the handler registered for the
\* event's own type; an event of a class derived from a handled type, the
\* derived class having no handler of its own, goes to handle_event and
\* not to the handler of the type it derives from.
C24_ExactTypeDispatch ==
    [][(last'.op \in {"apply_event", "produce_events"} /\ Len(last'.events) = 1)
       => LET e == last'.events[1]
          IN  /\ event_handlers.map[e.type] # NoHandler
                 => last'.calls = <<event_handlers.map[e.type]>>
              /\ (/\ event_handlers.map[e.type] = NoHandler
                  /\ EventBase(e.type) # "Event"
                  /\ event_handlers.map[EventBase(e.type)] # NoHandler)
                 => /\ last'.calls = <<HandleEventOf(agg.cls)>>
                    /\ last'.exc = NoExc
                    /\ Domain(agg') = Domain(handle_event(agg, e).a)]_vars

C24_Witness ==
    /\ last.op = "apply_event"
    /\ last.events = <<AccountDebitedSubclass(100)>>
    /\ last.calls = <<"AggregateRoot.handle_event">>
    /\ agg.cls = "Account"
    /\ agg.balance = 0 - 200

(***************************************************************************)
(* SpecIdentity: two instances, each constructed with an id of its own     *)
(* and then operated on.                                                   *)
(***************************************************************************)
\* the id instance i is constructed with
IdOf(i) == IF i = 1 THEN "id-1" ELSE "id-2"

NextIdentity ==
    \/ \E i \in Instances, c \in {"Account", "ExampleAggregateRoot"} :
          ConstructOne(i, c, IdOf(i))
    \/ \E i \in Instances : ProduceOn(i, ExampleLocked)
    \/ \E i \in Instances : ApplyOn(i, ExampleLocked)
    \/ \E i \in Instances : ClearOn(i)
    \/ \E i \in Instances, value \in 0..MaxVersion : SetVersionOn(i, value)
    \/ \E i \in Instances, body_exc \in {NoExc, BodyError} : FlushOn(i, body_exc)

SpecIdentity == Init /\ [][NextIdentity]_vars

\* C25: an instance just constructed has version 0 and no pending events,
\* and in every later state, whatever was called on it, its id is the id
\* it was constructed with.
C25_ConstructionAndIdentity ==
    /\ \A i \in Instances : Self(i).cls # "-" => Self(i).id = IdOf(i)
    /\ last.op = "construct"
       => /\ Self(last.arg).version = 0
          /\ Self(last.arg).pending_events = <<>>

C25_Witness ==
    /\ last.op = "flush"
    /\ last.arg = 2
    /\ replica.id = "id-2"
    /\ replica.version = MaxVersion
    /\ agg.id = "id-1"
    /\ agg.pending_events # <<>>
    /\ agg.locked

(***************************************************************************)
(* Version, partial failure and flush claims.                              *)
(***************************************************************************)
\* C26: version is never negative and never goes down, and only the
\* version setter changes it: construction starts it at 0 and
\* produce_events, apply_event, clear_events and flush, whether its body
\* returns or raises, leave it as it was.
C26_VersionOnlyBySetter ==
    [][/\ agg'.version >= 0
       /\ agg'.version >= agg.version
       /\ last'.op # "version" => agg'.version = agg.version]_vars

C26_Witness ==
    /\ last.op = "produce_events"
    /\ last.exc = NoExc
    /\ agg.version = MaxVersion
    /\ Len(agg.pending_events) = 2

\* C27: when produce_events(e1, ..., en) fails while applying ek, the
\* events before ek stay applied and have been appended in order, ek is
\* not appended, and no event after ek is applied or appended.
C27_NotAllOrNothing ==
    [][(last'.op = "produce_events" /\ last'.at > 0)
       => LET k == last'.at
          IN  /\ agg'.pending_events
                    = agg.pending_events \o SubSeq(last'.events, 1, k - 1)
              /\ Domain(agg') = Domain(HandledInOrder(agg, last'.events, k - 1))
              /\ Len(last'.calls) = k
              /\ \A i \in 1..k :
                    last'.calls[i]
                        = HandlerFor(HandledInOrder(agg, last'.events, i - 1),
                                     last'.events[i])]_vars

C27_Witness ==
    /\ last.op = "produce_events"
    /\ last.events = <<AccountCreated(None), ExampleLocked>>
    /\ last.at = 1
    /\ agg.cls = "ExampleAggregateRoot"
    /\ ~agg.locked
    /\ agg.pending_events = <<ExampleValueUpdated(5)>>

\* C28: after a flush whose body returned the buffer is empty, the events
\* produced while the body ran being removed along with those pending at
\* entry; after a flush whose body raised, the events produced while the
\* body ran are pending after those pending at entry.
C28_ProducedDuringFlush ==
    last.op = "flush"
        => IF last.exc = NoExc
           THEN agg.pending_events = <<>>
           ELSE agg.pending_events = entry \o during

C28_Witness ==
    /\ last.op = "flush"
    /\ last.exc = NoExc
    /\ entry # <<>>
    /\ during # <<>>
    /\ agg.pending_events = <<>>

(***************************************************************************)
(* SpecAlias: the dictionary to_dict returned is written to.  It is the    *)
(* event's __dict__, so the items set or deleted are the event's           *)
(* attributes; a field with a default is still found on the class after    *)
(* its item is deleted, a field without one is not.                        *)
(***************************************************************************)
AttributeError == "AttributeError: object has no attribute"
KeyError == "KeyError"

\* e.f
getattr(e, f) ==
    IF f \in DOMAIN e.dict THEN e.dict[f]
    ELSE IF ~Field(e.cls.stmt, f).required THEN Field(e.cls.stmt, f).default
    ELSE AttributeError

\* the values of the declared fields of e
FieldValues(e) == [f \in FieldNames(e.cls.stmt) |-> getattr(e, f)]

\* e == o, the __eq__ the dataclass decorator generates: the tuples of the
\* fields of two instances of one class are compared
Eq(e, o) ==
    IF e.cls # o.cls THEN "False"
    ELSE IF \E f \in FieldNames(e.cls.stmt) :
               AttributeError \in {getattr(e, f), getattr(o, f)}
         THEN AttributeError
         ELSE IF FieldValues(e) = FieldValues(o) THEN "True" ELSE "False"

\* d[key] = v
setitem(d, key, v) == [k \in DOMAIN d \cup {key} |-> IF k = key THEN v ELSE d[k]]

\* del d[key]
delitem(d, key) == [k \in DOMAIN d \ {key} |-> d[k]]

\* mapping[key] = v, mapping being what evt.to_dict() returned
SetItem(key, v) ==
    /\ mapping.kind = "ref"
    /\ evt' = [evt EXCEPT !.dict = setitem(to_dict(evt), key, v)]
    /\ elast' = [NoEventCall EXCEPT !.op = "setitem", !.arg = key, !.cls = evt.cls]
    /\ UNCHANGED <<aggvars, registry, made, bound, mapping, decoded>>

\* del mapping[key], mapping being what evt.to_dict() returned
DelItem(key) ==
    /\ mapping.kind = "ref"
    /\ evt' = IF key \in DOMAIN to_dict(evt)
              THEN [evt EXCEPT !.dict = delitem(to_dict(evt), key)]
              ELSE evt
    /\ elast' = [NoEventCall EXCEPT !.op = "delitem", !.arg = key, !.cls = evt.cls,
                                    !.exc = IF key \in DOMAIN to_dict(evt)
                                            THEN NoExc ELSE KeyError]
    /\ UNCHANGED <<aggvars, registry, made, bound, mapping, decoded>>

NextAlias ==
    \/ \E d \in Dicts : GivenDict(d)
    \/ \E s \in EventStmts : NewEvent(s)
    \/ ToDict
    \/ \E key \in {"a", "x"} : SetItem(key, IntVal(10))
    \/ \E key \in {"b", "c"} : DelItem(key)

SpecAlias == InitEvents /\ [][NextAlias]_vars

\* C29: changing, adding or removing a key of the mapping to_dict returned
\* leaves the event's field values, its equality with an event that was
\* equal to it and the result of a later to_dict on it unchanged.
C29_MappingIndependence ==
    [][elast'.op \in {"setitem", "delitem"}
       => /\ FieldValues(evt') = FieldValues(evt)
          /\ Eq(evt', evt) = Eq(evt, evt)
          /\ to_dict(evt') = to_dict(evt)]_vars

====
